---- MODULE Spec2Model ----
(***************************************************************************)
(* Model of drive-deep-clean: the dump-and-delete runs of cli.py           *)
(* (find_duplicates, find_similar_images, scan_gmail_attachments) and the  *)
(* executors they drive (dump_and_delete_duplicates,                       *)
(* dump_and_delete_similar, dump_and_delete_emails).                       *)
(*                                                                         *)
(* A run is one CLI command.  The remote store (Drive / Gmail) and the     *)
(* local dump directory are part of the state; every call to the remote    *)
(* store is a step of its own, so that the order of downloads and deletes  *)
(* is visible in the behaviour.                                            *)
(***************************************************************************)
EXTENDS Integers, Sequences, FiniteSets, TLC

\* ------------------------------------------------------------------ bounds
\* groups (or emails) in a run, members of a group, attachments of an email,
\* and files (or attachments) in a run altogether
MaxGroups == 2
MaxMembers == 4
MaxAttachments == 2
MaxFiles == 4

\* File names are <<stem, extension>>: os.path.splitext(name) of a name with
\* one dot.  Stems carry no dot and are shorter than 30 characters.
Names == { <<"IMG", ".jpg">>, <<"pic", ".jpg">> }
Sizes == {1, 2}
\* An md5 checksum is <<first 8 hex digits, remaining 24 hex digits>>.
Md5Heads == {"aaaaaaaa", "bbbbbbbb"}
\* What the user may type at the confirmation prompt.
ConfirmInputs == {"YES", "yes", ""}
Commands == {"dup", "sim", "gmail"}

\* Outcomes of the remote calls.
DownloadOutcomes == {"ok", "error"}
DeleteOutcomes == {"success", "PermissionDenied", "OtherFailure"}

\* ----------------------------------------------------------------- helpers
RECURSIVE SumSeq(_)
SumSeq(s) == IF s = <<>> THEN 0 ELSE Head(s) + SumSeq(Tail(s))

Range(s) == { s[k] : k \in DOMAIN s }

\* [f(x) for x in s]
SeqMap(s, F(_)) == [k \in DOMAIN s |-> F(s[k])]

IsSortedDesc(s) == \A k \in 1..(Len(s) - 1) : s[k] >= s[k + 1]

\* Ids are opaque and unique in a catalog snapshot: member j of group g.
FileId(g, j) == (g - 1) * MaxMembers + j
AllIds == 1..(MaxGroups * MaxMembers)

\* ------------------------------------------------- groups handed to the dump
\* int(file.get('size', 0))
FileSize(file) == file.size

\* the wasted size that counts the copy that stays as well
DupWasted_EveryCopy(files) == FileSize(files[1]) * Len(files)

\* wasted_size of calculate_wasted_space (exact duplicates)
DupWasted(files) == FileSize(files[1]) * (Len(files) - 1)

\* the wasted size that takes the smallest member for the one that stays
SimWasted_LessSmallest(files) ==
    SumSeq(SeqMap(files, FileSize)) - FileSize(files[Len(files)])

\* wasted_size of calculate_wasted_space (similar images)
SimWasted(files) == SumSeq(SeqMap(files, FileSize)) - FileSize(files[1])

\* The lists of n members of group g: ids by position, names and sizes free.
MemberLists(g, n) ==
    { [j \in 1..n |-> [id |-> FileId(g, j), name |-> nm[j], size |-> sz[j]]] :
        nm \in [1..n -> Names], sz \in [1..n -> Sizes] }

\* One entry of stats['duplicate_groups']: members of one md5 share their size,
\* and the first member's size is not 0.
DupGroups(g, n) ==
    { [files |-> fl, md5 |-> <<h, g>>, filename |-> fl[1].name,
       wasted_bytes |-> DupWasted(fl)] :
        h \in Md5Heads,
        fl \in { m \in MemberLists(g, n) : \A j \in DOMAIN m : m[j].size = m[1].size } }

\* One entry of stats['similar_groups']: files sorted by size, largest first.
SimGroups(g, n) ==
    { [files |-> fl, keeper |-> fl[1], wasted_bytes |-> SimWasted(fl)] :
        fl \in { m \in MemberLists(g, n) : IsSortedDesc(SeqMap(m, FileSize)) } }

GroupsOf(c, g, n) == IF c = "dup" THEN DupGroups(g, n) ELSE SimGroups(g, n)

\* The number of files in a list of groups
RECURSIVE FileCount(_)
FileCount(gl) == IF gl = <<>> THEN 0 ELSE Len(Head(gl).files) + FileCount(Tail(gl))

Min(a, b) == IF a <= b THEN a ELSE b

\* Lists of k groups of at least 2 and at most MaxMembers members each that
\* hold at most MaxFiles files
RECURSIVE GroupLists(_, _)
GroupLists(c, k) ==
    IF k = 0 THEN { <<>> }
    ELSE UNION { UNION { { Append(gl, grp) : grp \in GroupsOf(c, k, n) } :
                         n \in 2..Min(MaxMembers, MaxFiles - FileCount(gl)) } :
                 gl \in GroupLists(c, k - 1) }

\* The lists the dump loop may iterate: sorted by wasted bytes, largest first.
StatsGroups(c) ==
    { gl \in UNION { GroupLists(c, k) : k \in 1..MaxGroups } :
        IsSortedDesc([k \in DOMAIN gl |-> gl[k].wasted_bytes]) }

\* ------------------------------------------------------ emails handed to the dump
AttachmentId(g, j) == (g - 1) * MaxAttachments + j

AttachmentLists(g, n) ==
    { [j \in 1..n |-> [id |-> AttachmentId(g, j), filename |-> nm[j], size |-> sz[j]]] :
        nm \in [1..n -> Names], sz \in [1..n -> Sizes] }

\* One entry of stats['emails_sorted']; message ids are unique in the mailbox
Emails(g, n) ==
    { [id |-> g, attachments |-> al,
       total_attachment_size_bytes |-> SumSeq([k \in DOMAIN al |-> al[k].size])] :
        al \in AttachmentLists(g, n) }

\* The number of attachments in a list of emails
RECURSIVE AttachmentCount(_)
AttachmentCount(el) ==
    IF el = <<>> THEN 0 ELSE Len(Head(el).attachments) + AttachmentCount(Tail(el))

\* Lists of k emails of at least 1 and at most MaxAttachments attachments
\* each that hold at most MaxFiles attachments
RECURSIVE EmailLists(_)
EmailLists(k) ==
    IF k = 0 THEN { <<>> }
    ELSE UNION { UNION { { Append(el, em) : em \in Emails(k, n) } :
                         n \in 1..Min(MaxAttachments, MaxFiles - AttachmentCount(el)) } :
                 el \in EmailLists(k - 1) }

\* sorted(emails, key=total_attachment_size_bytes, reverse=True)
EmailsSorted ==
    { el \in UNION { EmailLists(k) : k \in 1..MaxGroups } :
        IsSortedDesc([k \in DOMAIN el |-> el[k].total_attachment_size_bytes]) }

\* ------------------------------------------------------------ local paths
\* keeper['name'].split('.')[0][:30]
GroupName(name) == name[1]

\* dump_folder = DUPLICATES_DUMP_DIR / md5[:8]
DupDumpFolder(group) == <<"duplicates_dump", "", group.md5[1]>>

\* dump_folder = DUPLICATES_DUMP_DIR / f"similar_{group_name}"
SimDumpFolder(group, keep_index) ==
    <<"duplicates_dump", "similar_", GroupName(group.files[keep_index + 1].name)>>

\* local_path = dump_folder / f"{name_parts[0]}_copy{i+1}{name_parts[1]}"
DupLocalPath(folder, name, i) == <<folder, name[1], "_copy", i + 1, name[2]>>

\* local_path = dump_folder / f"{name_parts[0]}_similar{i+1}{name_parts[1]}"
SimLocalPath(folder, name, i) == <<folder, name[1], "_similar", i + 1, name[2]>>

\* A local file: the remote object its bytes came from, and whether the
\* transfer ran to its end.
Bytes(id) == [src |-> id, complete |-> TRUE]
Truncated(id) == [src |-> id, complete |-> FALSE]

\* The file system after open(path, 'wb') and writing content.
WriteFile(files, path, content) ==
    [p \in (DOMAIN files) \cup {path} |-> IF p = path THEN content ELSE files[p]]

\* ------------------------------------------------------------------- state
VARIABLES
    cmd,                    \* the CLI command of this run
    dump,                   \* its --dump flag
    confirm,                \* what the user types at the prompt
    groups,                 \* stats['duplicate_groups'] / ['similar_groups'] / ['emails_sorted']
    keep_index,             \* the keep_index the CLI passes to the executor
    pc,                     \* position of the run
    gi,                     \* position of the dump loop in groups (1-based)
    i,                      \* enumerate(files) index inside the executor (0-based)
    downloaded,             \* the executor's lists for the group in hand
    deleted_from_drive,
    failed,
    skipped_no_permission,
    results,                \* what the executor returned, group by group
    totals,                 \* the CLI's total_* counters
    fs,                     \* local files: path -> content
    receipts,               \* README.txt of each dump folder
    remote,                 \* ids present in the remote store (not deleted, not trashed)
    log,                    \* the calls made to the remote store, in order
    catalog,                \* list_all_files() / list_all_images(), in listing order
    threshold,              \* --threshold, in 64ths
    hashes,                 \* compute_hashes_for_images(): file id -> hash, in insertion order
    found,                  \* find_duplicates() / find_similar_images(), in insertion order
    stats,                  \* the totals of calculate_wasted_space()
    mailbox,                \* the messages matching the Gmail query, in the server's order
    max_results,            \* --max-emails
    page_token,             \* the search's page_token: how many messages went before
    messages,               \* results.get('messages', []) of the page in hand
    emails_with_attachments \* the list the search builds and returns

vars == <<cmd, dump, confirm, groups, keep_index, pc, gi, i, downloaded,
          deleted_from_drive, failed, skipped_no_permission, results, totals,
          fs, receipts, remote, log, catalog, threshold, hashes, found, stats,
          mailbox, max_results, page_token, messages, emails_with_attachments>>

\* what the scan hands to the dump
search == <<mailbox, max_results, page_token, messages, emails_with_attachments>>
scanned == <<catalog, threshold, hashes, found, stats, search>>
inputs == <<cmd, dump, confirm, groups, keep_index, scanned>>
lists == <<downloaded, deleted_from_drive, failed, skipped_no_permission>>

\* keep_index=0 in the CLI's calls
KeepIndex == 0

\* SIMILARITY_THRESHOLD = 0.95, in 64ths: a similarity 1 - d/64 is >= 0.95
\* exactly when 64 - d >= 61
SimilarityThreshold == 61

EmptyFs == [p \in {} |-> Bytes(0)]

\* page_token = None
None == 0
\* calculate_wasted_space() not called yet
NoStats == <<>>
\* search_emails_with_large_attachments() not called
NoSearch ==
    /\ mailbox = <<>>
    /\ max_results = 1
    /\ page_token = None
    /\ messages = <<>>
    /\ emails_with_attachments = <<>>

Init ==
    /\ cmd \in Commands
    /\ dump \in BOOLEAN
    /\ confirm \in ConfirmInputs
    /\ groups \in IF cmd = "gmail" THEN EmailsSorted ELSE StatsGroups(cmd)
    /\ keep_index = KeepIndex
    /\ pc = "gate"
    /\ gi = 0
    /\ i = 0
    /\ downloaded = <<>>
    /\ deleted_from_drive = <<>>
    /\ failed = <<>>
    /\ skipped_no_permission = <<>>
    /\ results = <<>>
    /\ totals = [freed |-> 0, deleted |-> 0, skipped |-> 0, failed |-> 0]
    /\ fs = EmptyFs
    /\ receipts = [p \in {} |-> <<>>]
    /\ remote = AllIds
    /\ log = <<>>
    /\ catalog = <<>>
    /\ threshold = SimilarityThreshold
    /\ hashes = <<>>
    /\ found = <<>>
    /\ stats = NoStats
    /\ NoSearch

\* ------------------------------------------------------- the CLI's gate
\* the gate with a case-insensitive comparison of the typed token
Gate_AnyCase ==
    /\ pc = "gate"
    /\ IF dump /\ confirm \in {"YES", "yes"}
       THEN pc' = "loop" /\ gi' = 1
       ELSE pc' = "done" /\ gi' = gi
    /\ UNCHANGED <<inputs, i, lists, results, totals, fs, receipts, remote, log>>

\* if dump: confirm = input(...); if confirm == 'YES': <dump loop> else: Cancelled
Gate ==
    /\ pc = "gate"
    /\ IF dump /\ confirm = "YES"
       THEN pc' = "loop" /\ gi' = 1
       ELSE pc' = "done" /\ gi' = gi
    /\ UNCHANGED <<inputs, i, lists, results, totals, fs, receipts, remote, log>>

\* ------------------------------------- dump_and_delete_duplicates, by step
Group == groups[gi]
File == Group.files[i + 1]

\* for group in pbar: result = finder.dump_and_delete_duplicates(group, keep_index=0)
\* up to the start of the member loop
DupBeginGroup ==
    /\ cmd = "dup"
    /\ pc = "loop"
    /\ gi <= Len(groups)
    /\ downloaded' = <<>>
    /\ deleted_from_drive' = <<>>
    /\ failed' = <<>>
    /\ skipped_no_permission' = <<>>
    /\ i' = 0
    /\ pc' = "member"
    /\ UNCHANGED <<inputs, gi, results, totals, fs, receipts, remote, log>>

\* the keeper test against the 1-based index of the README loop
DupIsKept_OneBased(idx, keep) == idx - 1 = keep

\* i == keep_index
DupIsKept(idx, keep) == idx = keep

\* if i == keep_index: continue
DupSkipKeeper ==
    /\ cmd = "dup"
    /\ pc = "member"
    /\ i < Len(Group.files)
    /\ DupIsKept(i, keep_index)
    /\ i' = i + 1
    /\ UNCHANGED <<inputs, pc, gi, lists, results, totals, fs, receipts, remote, log>>

\* self.download_file(file_id, str(local_path), file_name) is called
DupStartDownload ==
    /\ cmd = "dup"
    /\ pc = "member"
    /\ i < Len(Group.files)
    /\ ~DupIsKept(i, keep_index)
    /\ pc' = "downloading"
    /\ log' = Append(log, [op |-> "download", id |-> File.id, out |-> "call"])
    /\ UNCHANGED <<inputs, gi, i, lists, results, totals, fs, receipts, remote>>

\* download_file without its  return False  on the exception path
DownloadFile_NeverFalse(out) == TRUE

\* download_file: True when the transfer completed, False on any exception
DownloadFile(out) == out = "ok"

\* delete_file that takes a 403 answer for a completed delete
DeleteFile_DeniedIsDone(out) == out \in {"success", "PermissionDenied"}

\* delete_file: True when files().delete() went through, False on any exception
DeleteFile(out) == out = "success"

\* download_file letting the exception of a failed transfer escape: the run ends
DupDownloadReturn_Raises(out) ==
    /\ cmd = "dup"
    /\ pc = "downloading"
    /\ LET local_path == DupLocalPath(DupDumpFolder(Group), File.name, i)
       IN IF DownloadFile(out)
          THEN /\ fs' = WriteFile(fs, local_path, Bytes(File.id))
               /\ downloaded' = Append(downloaded,
                      [id |-> File.id, name |-> File.name, size |-> FileSize(File),
                       local_path |-> local_path])
               /\ pc' = "downloaded"
          ELSE /\ fs' = WriteFile(fs, local_path, Truncated(File.id))
               /\ pc' = "done"
               /\ UNCHANGED downloaded
    /\ log' = Append(log, [op |-> "download", id |-> File.id, out |-> out])
    /\ UNCHANGED <<inputs, gi, i, failed, deleted_from_drive, skipped_no_permission,
                   results, totals, receipts, remote>>

\* download_file returns.  open(destination, 'wb') creates or empties the
\* local file before the first chunk is fetched, so a failed transfer leaves
\* a truncated file behind.
DupDownloadReturn(out) ==
    /\ cmd = "dup"
    /\ pc = "downloading"
    /\ LET local_path == DupLocalPath(DupDumpFolder(Group), File.name, i)
       IN IF DownloadFile(out)
          THEN /\ fs' = WriteFile(fs, local_path, Bytes(File.id))
               /\ downloaded' = Append(downloaded,
                      [id |-> File.id, name |-> File.name, size |-> FileSize(File),
                       local_path |-> local_path])
               /\ pc' = "downloaded"
               /\ UNCHANGED <<i, failed>>
          ELSE /\ fs' = WriteFile(fs, local_path, Truncated(File.id))
               /\ failed' = Append(failed,
                      [id |-> File.id, name |-> File.name, reason |-> "download_failed"])
               /\ i' = i + 1
               /\ pc' = "member"
               /\ UNCHANGED downloaded
    /\ log' = Append(log, [op |-> "download", id |-> File.id, out |-> out])
    /\ UNCHANGED <<inputs, gi, deleted_from_drive, skipped_no_permission, results,
                   totals, receipts, remote>>

\* self.delete_file(file_id) is called
DupStartDelete ==
    /\ cmd = "dup"
    /\ pc = "downloaded"
    /\ pc' = "deleting"
    /\ log' = Append(log, [op |-> "delete", id |-> File.id, out |-> "call"])
    /\ UNCHANGED <<inputs, gi, i, lists, results, totals, fs, receipts, remote>>

\* the return that lists a member nowhere when its delete did not go through
DupDeleteReturn_DeniedUnlisted(out) ==
    /\ cmd = "dup"
    /\ pc = "deleting"
    /\ IF DeleteFile(out)
       THEN deleted_from_drive' = Append(deleted_from_drive, File.id)
       ELSE UNCHANGED deleted_from_drive
    /\ remote' = IF out = "success" THEN remote \ {File.id} ELSE remote
    /\ i' = i + 1
    /\ pc' = "member"
    /\ log' = Append(log, [op |-> "delete", id |-> File.id, out |-> out])
    /\ UNCHANGED <<inputs, gi, downloaded, failed, skipped_no_permission, results,
                   totals, fs, receipts>>

\* the executor trying the same member again when its delete failed
DupDeleteReturn_Retry(out) ==
    /\ cmd = "dup"
    /\ pc = "deleting"
    /\ IF DeleteFile(out)
       THEN /\ deleted_from_drive' = Append(deleted_from_drive, File.id)
            /\ i' = i + 1
       ELSE /\ UNCHANGED <<deleted_from_drive, i>>
    /\ remote' = IF out = "success" THEN remote \ {File.id} ELSE remote
    /\ pc' = "member"
    /\ log' = Append(log, [op |-> "delete", id |-> File.id, out |-> out])
    /\ UNCHANGED <<inputs, gi, downloaded, failed, skipped_no_permission, results,
                   totals, fs, receipts>>

\* delete_file returns
DupDeleteReturn(out) ==
    /\ cmd = "dup"
    /\ pc = "deleting"
    /\ IF DeleteFile(out)
       THEN /\ deleted_from_drive' = Append(deleted_from_drive, File.id)
            /\ UNCHANGED skipped_no_permission
       ELSE /\ skipped_no_permission' = Append(skipped_no_permission,
                   [id |-> File.id, name |-> File.name, reason |-> "no_permission"])
            /\ UNCHANGED deleted_from_drive
    /\ remote' = IF out = "success" THEN remote \ {File.id} ELSE remote
    /\ i' = i + 1
    /\ pc' = "member"
    /\ log' = Append(log, [op |-> "delete", id |-> File.id, out |-> out])
    /\ UNCHANGED <<inputs, gi, downloaded, failed, results, totals, fs, receipts>>

\* the sum without its  if d['id'] in deleted_from_drive  filter
SpaceFreedBytes_AllDownloaded(dl, del) == SumSeq([k \in DOMAIN dl |-> dl[k].size])

\* sum(d['size'] for d in downloaded if d['id'] in deleted_from_drive)
RECURSIVE SpaceFreedBytes(_, _)
SpaceFreedBytes(dl, del) ==
    IF dl = <<>> THEN 0
    ELSE (IF Head(dl).id \in Range(del) THEN Head(dl).size ELSE 0)
         + SpaceFreedBytes(Tail(dl), del)

\* the tag that takes every downloaded member for a deleted one
ReceiptStatus_DownloadedIsDeleted(files, k, keep, del, skipped) ==
    IF k - 1 = keep THEN "KEPT IN DRIVE"
    ELSE IF files[k].id \in Range(del) \/ (\E s \in Range(skipped) : s.id = files[k].id)
         THEN "DOWNLOADED & DELETED FROM DRIVE"
    ELSE "FAILED"

\* The status tag of member k (1-based) in README.txt
ReceiptStatus(files, k, keep, del, skipped) ==
    IF k - 1 = keep THEN "KEPT IN DRIVE"
    ELSE IF files[k].id \in Range(del) THEN "DOWNLOADED & DELETED FROM DRIVE"
    ELSE IF \E s \in Range(skipped) : s.id = files[k].id THEN "SKIPPED (No permission)"
    ELSE "FAILED"

\* The lines of README.txt: one per member of the group
Receipt(files, keep, del, skipped) ==
    [k \in DOMAIN files |->
        [name |-> files[k].name, id |-> files[k].id,
         status |-> ReceiptStatus(files, k, keep, del, skipped)]]

\* The dict dump_and_delete_duplicates / dump_and_delete_similar returns
Result(folder) ==
    [downloaded |-> downloaded,
     deleted_from_drive |-> deleted_from_drive,
     skipped_no_permission |-> skipped_no_permission,
     failed |-> failed,
     dump_folder |-> folder,
     space_freed_bytes |-> SpaceFreedBytes(downloaded, deleted_from_drive)]

\* The member loop is over: README.txt is written, the result returned, and
\* the CLI adds it to its totals
DupFinishGroup ==
    /\ cmd = "dup"
    /\ pc = "member"
    /\ i = Len(Group.files)
    /\ LET folder == DupDumpFolder(Group)
           result == Result(folder)
       IN /\ receipts' = WriteFile(receipts, folder,
                 Receipt(Group.files, keep_index, deleted_from_drive, skipped_no_permission))
          /\ results' = Append(results, result)
          /\ totals' = [freed |-> totals.freed + result.space_freed_bytes,
                        deleted |-> totals.deleted + Len(result.deleted_from_drive),
                        skipped |-> totals.skipped + Len(result.skipped_no_permission),
                        failed |-> totals.failed + Len(result.failed)]
    /\ gi' = gi + 1
    /\ pc' = "loop"
    /\ UNCHANGED <<inputs, i, lists, fs, remote, log>>

\* ----------------------------------------- dump_and_delete_similar, by step
\* SimilarImageFinder.download_file: False on any exception
SimDownloadFile(out) == out = "ok"

\* SimilarImageFinder.delete_file: False on any exception
SimDeleteFile(out) == out = "success"

\* for group in pbar: result = finder.dump_and_delete_similar(group, keep_index=0)
\* up to the start of the member loop
SimBeginGroup ==
    /\ cmd = "sim"
    /\ pc = "loop"
    /\ gi <= Len(groups)
    /\ downloaded' = <<>>
    /\ deleted_from_drive' = <<>>
    /\ failed' = <<>>
    /\ skipped_no_permission' = <<>>
    /\ i' = 0
    /\ pc' = "member"
    /\ UNCHANGED <<inputs, gi, results, totals, fs, receipts, remote, log>>

\* i == keep_index
SimIsKept(idx, keep) == idx = keep

\* if i == keep_index: continue
SimSkipKeeper ==
    /\ cmd = "sim"
    /\ pc = "member"
    /\ i < Len(Group.files)
    /\ SimIsKept(i, keep_index)
    /\ i' = i + 1
    /\ UNCHANGED <<inputs, pc, gi, lists, results, totals, fs, receipts, remote, log>>

\* self.download_file(file_id, str(local_path), file_name) is called
SimStartDownload ==
    /\ cmd = "sim"
    /\ pc = "member"
    /\ i < Len(Group.files)
    /\ ~SimIsKept(i, keep_index)
    /\ pc' = "downloading"
    /\ log' = Append(log, [op |-> "download", id |-> File.id, out |-> "call"])
    /\ UNCHANGED <<inputs, gi, i, lists, results, totals, fs, receipts, remote>>

\* download_file returns.  open(destination, 'wb') creates or empties the
\* local file before the first chunk is fetched, so a failed transfer leaves
\* a truncated file behind.
SimDownloadReturn(out) ==
    /\ cmd = "sim"
    /\ pc = "downloading"
    /\ LET local_path == SimLocalPath(SimDumpFolder(Group, keep_index), File.name, i)
       IN IF SimDownloadFile(out)
          THEN /\ fs' = WriteFile(fs, local_path, Bytes(File.id))
               /\ downloaded' = Append(downloaded,
                      [id |-> File.id, name |-> File.name, size |-> FileSize(File),
                       local_path |-> local_path])
               /\ pc' = "downloaded"
               /\ UNCHANGED <<i, failed>>
          ELSE /\ fs' = WriteFile(fs, local_path, Truncated(File.id))
               /\ failed' = Append(failed,
                      [id |-> File.id, name |-> File.name, reason |-> "download_failed"])
               /\ i' = i + 1
               /\ pc' = "member"
               /\ UNCHANGED downloaded
    /\ log' = Append(log, [op |-> "download", id |-> File.id, out |-> out])
    /\ UNCHANGED <<inputs, gi, deleted_from_drive, skipped_no_permission, results,
                   totals, receipts, remote>>

\* self.delete_file(file_id) is called
SimStartDelete ==
    /\ cmd = "sim"
    /\ pc = "downloaded"
    /\ pc' = "deleting"
    /\ log' = Append(log, [op |-> "delete", id |-> File.id, out |-> "call"])
    /\ UNCHANGED <<inputs, gi, i, lists, results, totals, fs, receipts, remote>>

\* delete_file returns
SimDeleteReturn(out) ==
    /\ cmd = "sim"
    /\ pc = "deleting"
    /\ IF SimDeleteFile(out)
       THEN /\ deleted_from_drive' = Append(deleted_from_drive, File.id)
            /\ UNCHANGED skipped_no_permission
       ELSE /\ skipped_no_permission' = Append(skipped_no_permission,
                   [id |-> File.id, name |-> File.name, reason |-> "no_permission"])
            /\ UNCHANGED deleted_from_drive
    /\ remote' = IF out = "success" THEN remote \ {File.id} ELSE remote
    /\ i' = i + 1
    /\ pc' = "member"
    /\ log' = Append(log, [op |-> "delete", id |-> File.id, out |-> out])
    /\ UNCHANGED <<inputs, gi, downloaded, failed, results, totals, fs, receipts>>

\* The member loop is over: README.txt is written, the result returned, and
\* the CLI adds it to its totals
SimFinishGroup ==
    /\ cmd = "sim"
    /\ pc = "member"
    /\ i = Len(Group.files)
    /\ LET folder == SimDumpFolder(Group, keep_index)
           result == Result(folder)
       IN /\ receipts' = WriteFile(receipts, folder,
                 Receipt(Group.files, keep_index, deleted_from_drive, skipped_no_permission))
          /\ results' = Append(results, result)
          /\ totals' = [freed |-> totals.freed + result.space_freed_bytes,
                        deleted |-> totals.deleted + Len(result.deleted_from_drive),
                        skipped |-> totals.skipped,
                        failed |-> totals.failed]
    /\ gi' = gi + 1
    /\ pc' = "loop"
    /\ UNCHANGED <<inputs, i, lists, fs, remote, log>>

\* ------------------------------------------ dump_and_delete_emails, by step
Email == groups[gi]
Attachment == Email.attachments[i + 1]
TrashOutcomes == {"success", "failure"}

\* email_folder = GMAIL_DUMP_DIR / f"{msg_id}_{safe_subject}"
EmailFolder(email) == <<"gmail_attachments_dump", email.id>>

\* local_path = email_folder / att['filename']
AttachmentPath(folder, filename) == <<folder, filename>>

\* download_attachment: True when the bytes were fetched and written
DownloadAttachment(out) == out = "ok"

\* delete_email: True when messages().trash() went through
DeleteEmail(out) == out = "success"

\* for email in pbar: result = scanner.dump_and_delete_emails(email)
\* up to the start of the attachment loop
GmailBeginEmail ==
    /\ cmd = "gmail"
    /\ pc = "loop"
    /\ gi <= Len(groups)
    /\ downloaded' = <<>>
    /\ failed' = <<>>
    /\ i' = 0
    /\ pc' = "attachment"
    /\ UNCHANGED <<inputs, gi, deleted_from_drive, skipped_no_permission, results,
                   totals, fs, receipts, remote, log>>

\* One turn of  for att in email['attachments'].  The bytes are fetched from
\* the mailbox before the local file is opened, so a failed fetch writes nothing.
GmailDownloadAttachment(out) ==
    /\ cmd = "gmail"
    /\ pc = "attachment"
    /\ i < Len(Email.attachments)
    /\ LET local_path == AttachmentPath(EmailFolder(Email), Attachment.filename)
       IN IF DownloadAttachment(out)
          THEN /\ fs' = WriteFile(fs, local_path, Bytes(Attachment.id))
               /\ downloaded' = Append(downloaded,
                      [filename |-> Attachment.filename, size |-> Attachment.size,
                       local_path |-> local_path])
               /\ UNCHANGED failed
          ELSE /\ failed' = Append(failed, Attachment.filename)
               /\ UNCHANGED <<fs, downloaded>>
    /\ i' = i + 1
    /\ log' = Append(log, [op |-> "attachment", id |-> Attachment.id, out |-> out])
    /\ UNCHANGED <<inputs, pc, gi, deleted_from_drive, skipped_no_permission, results,
                   totals, receipts, remote>>

\* The lines of the email's README.txt: one per attachment
EmailReceipt(attachments, dl) ==
    [k \in DOMAIN attachments |->
        [filename |-> attachments[k].filename,
         status |-> IF \E d \in Range(dl) : d.filename = attachments[k].filename
                    THEN "Downloaded" ELSE "Failed"]]

\* After the attachment loop: deleted = self.delete_email(msg_id), README.txt,
\* the returned dict, and the CLI's totals
GmailDeleteEmail(out) ==
    /\ cmd = "gmail"
    /\ pc = "attachment"
    /\ i = Len(Email.attachments)
    /\ LET deleted == DeleteEmail(out)
           folder == EmailFolder(Email)
           result == [downloaded |-> downloaded,
                      failed |-> failed,
                      deleted |-> deleted,
                      dump_folder |-> folder,
                      space_freed_bytes |->
                          IF deleted THEN Email.total_attachment_size_bytes ELSE 0]
       IN /\ remote' = IF out = "success" THEN remote \ {Email.id} ELSE remote
          /\ receipts' = WriteFile(receipts, folder, EmailReceipt(Email.attachments, downloaded))
          /\ results' = Append(results, result)
          /\ totals' = [totals EXCEPT !.freed = @ + result.space_freed_bytes,
                                      !.deleted = @ + (IF result.deleted THEN 1 ELSE 0)]
    /\ log' = Append(log, [op |-> "trash", id |-> Email.id, out |-> out])
    /\ gi' = gi + 1
    /\ pc' = "loop"
    /\ UNCHANGED <<inputs, i, lists, fs>>

\* What the CLI prints after the dump loop: the RESULTS block of
\* find_duplicates, the "Space freed" line of find_similar_images, the
\* RESULTS block of scan_gmail_attachments
Report ==
    IF cmd = "dup"
    THEN [groups_processed |-> Len(groups), deleted |-> totals.deleted,
          kept |-> Len(groups), skipped |-> totals.skipped, freed |-> totals.freed]
    ELSE IF cmd = "sim"
    THEN [freed |-> totals.freed]
    ELSE [deleted |-> totals.deleted, freed |-> totals.freed]

\* The dump loop has run through every group: the totals are printed
EndRun ==
    /\ pc = "loop"
    /\ gi > Len(groups)
    /\ pc' = "done"
    /\ UNCHANGED <<inputs, gi, i, lists, results, totals, fs, receipts, remote, log>>

Next ==
    \/ Gate
    \/ DupBeginGroup
    \/ DupSkipKeeper
    \/ DupStartDownload
    \/ \E out \in DownloadOutcomes : DupDownloadReturn(out)
    \/ DupStartDelete
    \/ \E out \in DeleteOutcomes : DupDeleteReturn(out)
    \/ DupFinishGroup
    \/ SimBeginGroup
    \/ SimSkipKeeper
    \/ SimStartDownload
    \/ \E out \in DownloadOutcomes : SimDownloadReturn(out)
    \/ SimStartDelete
    \/ \E out \in DeleteOutcomes : SimDeleteReturn(out)
    \/ SimFinishGroup
    \/ GmailBeginEmail
    \/ \E out \in DownloadOutcomes : GmailDownloadAttachment(out)
    \/ \E out \in TrashOutcomes : GmailDeleteEmail(out)
    \/ EndRun

Spec == Init /\ [][Next]_vars

\* ================================================================ the scan
\* files (or images) in a catalog listing
MaxCatalog == 3

\* Every file of a scanned catalog has the same name: names play no part in
\* grouping.
CatalogNames == { <<"IMG", ".jpg">> }
\* createdTime, as a day number
CreatedTimes == {1, 2}
\* file.get('md5Checksum') of a file that has none (Google Docs, Sheets, ...)
NoMd5 == <<>>
Md5s == { <<h, 0>> : h \in Md5Heads }

\* The listings of n files list_all_files() may return: ids by position, the
\* files of one md5 share their size (0 for empty files), a file without md5
\* has no size.  The
\* listing order is the server's: it is not tied to createdTime.
DupCatalogs(n) ==
    { [k \in 1..n |-> [id |-> k, name |-> nm[k],
                       size |-> IF m[k] = NoMd5 THEN 0 ELSE sz[m[k]],
                       md5 |-> m[k], createdTime |-> t[k]]] :
        nm \in [1..n -> CatalogNames], m \in [1..n -> Md5s \cup {NoMd5}],
        sz \in [Md5s -> Sizes \cup {0}], t \in [1..n -> CreatedTimes] }

\* A dict, in insertion order: a sequence of [key, value] entries.
DictKeys(d) == { d[k].key : k \in DOMAIN d }

\* the append that puts the file at the head of its list
HashMapAppend_Prepend(hash_map, md5, file) ==
    IF md5 \in DictKeys(hash_map)
    THEN [k \in DOMAIN hash_map |->
            IF hash_map[k].key = md5
            THEN [key |-> md5, value |-> <<file>> \o hash_map[k].value]
            ELSE hash_map[k]]
    ELSE Append(hash_map, [key |-> md5, value |-> <<file>>])

\* hash_map[md5].append(file) on a defaultdict(list)
HashMapAppend(hash_map, md5, file) ==
    IF md5 \in DictKeys(hash_map)
    THEN [k \in DOMAIN hash_map |->
            IF hash_map[k].key = md5
            THEN [key |-> md5, value |-> Append(hash_map[k].value, file)]
            ELSE hash_map[k]]
    ELSE Append(hash_map, [key |-> md5, value |-> <<file>>])

\* the md5 test that takes an absent checksum for a checksum
HasMd5_Always(file) == TRUE

\* md5 = file.get('md5Checksum'); if md5:
HasMd5(file) == file.md5 # NoMd5

\* hash_map after the loop  for file in pbar
RECURSIVE HashMap(_)
HashMap(files) ==
    IF files = <<>> THEN <<>>
    ELSE LET hash_map == HashMap(SubSeq(files, 1, Len(files) - 1))
             file == files[Len(files)]
         IN IF HasMd5(file) THEN HashMapAppend(hash_map, file.md5, file) ELSE hash_map

\* the filter that lets a hash seen once through
IsDuplicated_OneIsEnough(file_list) == Len(file_list) >= 1

\* if len(file_list) > 1
IsDuplicated(file_list) == Len(file_list) > 1

\* find_duplicates(files): md5 -> the files of that md5, for the md5s seen
\* more than once
FindDuplicates(files) == SelectSeq(HashMap(files), LAMBDA e : IsDuplicated(e.value))

\* list.sort(key=..., reverse=True) / sorted(..., reverse=True) on [key, value]
\* entries: stable, entries of equal key keep their order.
\* InsertDesc puts e behind the entries whose key is at least e.key.
RECURSIVE InsertDesc_Unstable(_, _)
InsertDesc_Unstable(s, e) ==
    IF s = <<>> THEN <<e>>
    ELSE IF Head(s).key > e.key THEN <<Head(s)>> \o InsertDesc_Unstable(Tail(s), e)
    ELSE <<e>> \o s

RECURSIVE InsertDesc(_, _)
InsertDesc(s, e) ==
    IF s = <<>> THEN <<e>>
    ELSE IF Head(s).key >= e.key THEN <<Head(s)>> \o InsertDesc(Tail(s), e)
    ELSE <<e>> \o s

\* the sort that leaves the list as it was given
SortedDesc_AsGiven(s) == s

RECURSIVE SortedDesc(_)
SortedDesc(s) ==
    IF s = <<>> THEN <<>>
    ELSE InsertDesc(SortedDesc(SubSeq(s, 1, Len(s) - 1)), s[Len(s)])

Values(s) == [k \in DOMAIN s |-> s[k].value]

\* the entry of duplicate_groups for one md5
DupGroupInfo(md5_hash, file_group) ==
    [files |-> file_group, md5 |-> md5_hash, filename |-> file_group[1].name,
     wasted_bytes |-> DupWasted(file_group)]

\* the list that takes in the groups of size 0 as well
DuplicateGroups_KeepsZero(duplicates) ==
    [k \in DOMAIN duplicates |-> DupGroupInfo(duplicates[k].key, duplicates[k].value)]

\* duplicate_groups before the sort: groups whose first file has size 0 are
\* left out
RECURSIVE DuplicateGroups(_)
DuplicateGroups(duplicates) ==
    IF duplicates = <<>> THEN <<>>
    ELSE LET e == Head(duplicates)
         IN IF FileSize(e.value[1]) = 0 THEN DuplicateGroups(Tail(duplicates))
            ELSE <<DupGroupInfo(e.key, e.value)>> \o DuplicateGroups(Tail(duplicates))

\* stats['duplicate_groups'] of calculate_wasted_space(duplicates)
DupCalculateWastedSpace(duplicates) ==
    LET dg == DuplicateGroups(duplicates)
    IN Values(SortedDesc([k \in DOMAIN dg |-> [key |-> dg[k].wasted_bytes, value |-> dg[k]]]))

\* total_wasted_bytes and total_duplicate_files after the loop: a group whose
\* first file has size 0 is passed over before either is added to
RECURSIVE DupAccumulate(_)
DupAccumulate(duplicates) ==
    IF duplicates = <<>> THEN [total_wasted_bytes |-> 0, total_duplicate_files |-> 0]
    ELSE LET acc == DupAccumulate(SubSeq(duplicates, 1, Len(duplicates) - 1))
             file_group == duplicates[Len(duplicates)].value
         IN IF FileSize(file_group[1]) = 0 THEN acc
            ELSE [total_wasted_bytes |-> acc.total_wasted_bytes + DupWasted(file_group),
                  total_duplicate_files |-> acc.total_duplicate_files + Len(file_group)]

\* the totals calculate_wasted_space(duplicates) returns
DupTotals(duplicates) ==
    [total_duplicate_files |-> DupAccumulate(duplicates).total_duplicate_files,
     total_duplicate_groups |-> Len(duplicates),
     total_wasted_bytes |-> DupAccumulate(duplicates).total_wasted_bytes]

\* ---------------------------------------------------------- similar images
\* imagehash.average_hash(image, hash_size=8): 8 x 8 bits, here the set of
\* the positions (1..64, row by row) of the bits that are set
HashSize == 8
\* max_difference = 64
MaxDifference == 64

\* Three fingerprints, 4 bits from one to the next and 8 bits end to end
Fingerprints == { {}, 1..4, 1..8 }
\* --threshold in 64ths: 0.0, 0.9375, 1.0 and 65/64.  A threshold between two
\* 64ths compares like the 64th above it, similarities being whole 64ths.
Thresholds == {0, 60, 64, 65}

\* The listings of n images list_all_images() may return.  decodes tells
\* whether the image can be downloaded and hashed; bits is its average hash.
ImageCatalogs(n) ==
    { [k \in 1..n |-> [id |-> k, name |-> nm[k], size |-> sz[k],
                       bits |-> IF ok[k] THEN fp[k] ELSE {}, decodes |-> ok[k]]] :
        nm \in [1..n -> CatalogNames], sz \in [1..n -> Sizes],
        fp \in [1..n -> Fingerprints], ok \in [1..n -> BOOLEAN] }

Pow2(n) == 2 ^ n

\* str(hash_value): 16 hex digits, 4 bits a digit, first bit highest
HashToHex(bits) ==
    [d \in 1..((HashSize * HashSize) \div 4) |->
        SumSeq([b \in 1..4 |-> IF 4 * (d - 1) + b \in bits THEN Pow2(4 - b) ELSE 0])]

\* imagehash.hex_to_hash(hex)
HexToHash(hex) ==
    { p \in 1..(4 * Len(hex)) :
        (hex[((p - 1) \div 4) + 1] \div Pow2(3 - ((p - 1) % 4))) % 2 = 1 }

\* hash_1 - hash_2: the number of bits that differ
Difference(hash_1, hash_2) == Cardinality((hash_1 \ hash_2) \cup (hash_2 \ hash_1))

\* the comparison with > in place of >=
IsSimilar_Strict(hex_1, hex_2, t) ==
    MaxDifference - Difference(HexToHash(hex_1), HexToHash(hex_2)) > t

\* similarity = 1.0 - (difference / max_difference); similarity >= threshold,
\* both sides times 64
IsSimilar(hex_1, hex_2, t) ==
    MaxDifference - Difference(HexToHash(hex_1), HexToHash(hex_2)) >= t

\* the hashing that enters an image it could not hash with a blank hash
RECURSIVE ComputeHashesForImages_FailedAsBlank(_)
ComputeHashesForImages_FailedAsBlank(files) ==
    IF files = <<>> THEN <<>>
    ELSE Append(ComputeHashesForImages_FailedAsBlank(SubSeq(files, 1, Len(files) - 1)),
                [key |-> files[Len(files)].id, value |-> HashToHex(files[Len(files)].bits)])

\* compute_hashes_for_images(files): file id -> hex digits, for the images
\* that could be downloaded and hashed
RECURSIVE ComputeHashesForImages(_)
ComputeHashesForImages(files) ==
    IF files = <<>> THEN <<>>
    ELSE LET done == ComputeHashesForImages(SubSeq(files, 1, Len(files) - 1))
             file == files[Len(files)]
         IN IF file.decodes
            THEN Append(done, [key |-> file.id, value |-> HashToHex(file.bits)])
            ELSE done

\* file_lookup[file_id]
FileLookup(files, file_id) == files[CHOOSE k \in DOMAIN files : files[k].id = file_id]

\* the inner loop comparing each file with the member appended last
RECURSIVE InnerLoop_Chained(_, _, _, _)
InnerLoop_Chained(rest, hash_1, processed, t) ==
    IF rest = <<>> THEN <<>>
    ELSE IF Head(rest).key \in processed
         THEN InnerLoop_Chained(Tail(rest), hash_1, processed, t)
    ELSE IF IsSimilar(hash_1, Head(rest).value, t)
         THEN <<Head(rest).key>> \o
              InnerLoop_Chained(Tail(rest), Head(rest).value,
                                processed \cup {Head(rest).key}, t)
    ELSE InnerLoop_Chained(Tail(rest), hash_1, processed, t)

\* for file_id_2 in file_ids[i+1:]: the ids appended to the anchor's group
RECURSIVE InnerLoop(_, _, _, _)
InnerLoop(rest, hash_1, processed, t) ==
    IF rest = <<>> THEN <<>>
    ELSE IF Head(rest).key \in processed
         THEN InnerLoop(Tail(rest), hash_1, processed, t)
    ELSE IF IsSimilar(hash_1, Head(rest).value, t)
         THEN <<Head(rest).key>> \o
              InnerLoop(Tail(rest), hash_1, processed \cup {Head(rest).key}, t)
    ELSE InnerLoop(Tail(rest), hash_1, processed, t)

\* the outer loop that does not mark the files an anchor has claimed
RECURSIVE OuterLoop_ForgetsMatched(_, _, _, _, _)
OuterLoop_ForgetsMatched(k, hs, files, t, processed) ==
    IF k > Len(hs) THEN <<>>
    ELSE LET matched == InnerLoop(SubSeq(hs, k + 1, Len(hs)), hs[k].value,
                                  processed \cup {hs[k].key}, t)
             group == <<FileLookup(files, hs[k].key)>> \o
                      [j \in DOMAIN matched |-> FileLookup(files, matched[j])]
             rest == OuterLoop_ForgetsMatched(k + 1, hs, files, t,
                                              processed \cup {hs[k].key})
         IN IF Len(group) > 1
            THEN <<[key |-> hs[k].key, value |-> group]>> \o rest
            ELSE rest

\* for i, file_id_1 in enumerate(pbar), from position i on: the groups of
\* more than one file, keyed by their first file's id
RECURSIVE OuterLoop(_, _, _, _, _)
OuterLoop(k, hs, files, t, processed) ==
    IF k > Len(hs) THEN <<>>
    ELSE IF hs[k].key \in processed THEN OuterLoop(k + 1, hs, files, t, processed)
    ELSE LET matched == InnerLoop(SubSeq(hs, k + 1, Len(hs)), hs[k].value,
                                  processed \cup {hs[k].key}, t)
             group == <<FileLookup(files, hs[k].key)>> \o
                      [j \in DOMAIN matched |-> FileLookup(files, matched[j])]
             rest == OuterLoop(k + 1, hs, files, t,
                               processed \cup {hs[k].key} \cup Range(matched))
         IN IF Len(group) > 1
            THEN <<[key |-> hs[k].key, value |-> group]>> \o rest
            ELSE rest

\* find_similar_images(files, hashes)
FindSimilarImages(files, hs, t) == OuterLoop(1, hs, files, t, {})

\* files_sorted = sorted(files, key=size, reverse=True)
FilesSorted(files) ==
    Values(SortedDesc([k \in DOMAIN files |-> [key |-> FileSize(files[k]), value |-> files[k]]]))

\* the entry of groups_info for one group
SimGroupInfo(files) ==
    LET files_sorted == FilesSorted(files)
    IN [files |-> files_sorted, keeper |-> files_sorted[1],
        wasted_bytes |-> SimWasted(files_sorted)]

\* total_wasted_bytes and total_similar_files after the loop
RECURSIVE SimAccumulate(_)
SimAccumulate(similar_groups) ==
    IF similar_groups = <<>> THEN [total_wasted_bytes |-> 0, total_similar_files |-> 0]
    ELSE LET acc == SimAccumulate(SubSeq(similar_groups, 1, Len(similar_groups) - 1))
             files == similar_groups[Len(similar_groups)].value
         IN [total_wasted_bytes |-> acc.total_wasted_bytes + SimGroupInfo(files).wasted_bytes,
             total_similar_files |-> acc.total_similar_files + Len(files)]

\* the totals calculate_wasted_space(similar_groups) returns; total_wasted_mb
\* is total_wasted_bytes / 2^20
SimTotals(similar_groups) ==
    [total_similar_files |-> SimAccumulate(similar_groups).total_similar_files,
     total_groups |-> Len(similar_groups),
     total_wasted_bytes |-> SimAccumulate(similar_groups).total_wasted_bytes]

\* stats['similar_groups'] of calculate_wasted_space(similar_groups); the
\* sort key wasted_mb orders like the bytes it is computed from
SimCalculateWastedSpace(similar_groups) ==
    LET groups_info == [k \in DOMAIN similar_groups |-> SimGroupInfo(similar_groups[k].value)]
    IN Values(SortedDesc([k \in DOMAIN groups_info |-> [key |-> groups_info[k].wasted_bytes, value |-> groups_info[k]]]))

\* ------------------------------------------------- the scan of a run, by step
Catalogs(c) ==
    UNION { IF c = "dup" THEN DupCatalogs(n) ELSE ImageCatalogs(n) : n \in 0..MaxCatalog }

\* A run of drive-duplicates or drive-similar from the listing on
ScanInit ==
    /\ cmd \in {"dup", "sim"}
    /\ dump \in BOOLEAN
    /\ confirm \in ConfirmInputs
    /\ catalog \in Catalogs(cmd)
    /\ threshold \in IF cmd = "sim" THEN Thresholds ELSE {SimilarityThreshold}
    /\ hashes = <<>>
    /\ found = <<>>
    /\ stats = NoStats
    /\ NoSearch
    /\ groups = <<>>
    /\ keep_index = KeepIndex
    /\ pc = "listed"
    /\ gi = 0
    /\ i = 0
    /\ downloaded = <<>>
    /\ deleted_from_drive = <<>>
    /\ failed = <<>>
    /\ skipped_no_permission = <<>>
    /\ results = <<>>
    /\ totals = [freed |-> 0, deleted |-> 0, skipped |-> 0, failed |-> 0]
    /\ fs = EmptyFs
    /\ receipts = [p \in {} |-> <<>>]
    /\ remote = { catalog[k].id : k \in DOMAIN catalog }
    /\ log = <<>>

run == <<gi, i, lists, results, totals, fs, receipts, remote, log>>

\* find_duplicates (CLI): if not files: return; duplicates =
\* finder.find_duplicates(files); if not duplicates: return
ScanDuplicates ==
    /\ cmd = "dup"
    /\ pc = "listed"
    /\ found' = FindDuplicates(catalog)
    /\ pc' = IF catalog = <<>> \/ found' = <<>> THEN "done" ELSE "found"
    /\ UNCHANGED <<cmd, dump, confirm, groups, keep_index, catalog, threshold, hashes, stats,
                   search, run>>

\* stats = finder.calculate_wasted_space(duplicates)
ScanDupStats ==
    /\ cmd = "dup"
    /\ pc = "found"
    /\ groups' = DupCalculateWastedSpace(found)
    /\ stats' = DupTotals(found)
    /\ pc' = "gate"
    /\ UNCHANGED <<cmd, dump, confirm, keep_index, catalog, threshold, hashes, found,
                   search, run>>

\* find_similar_images (CLI): if not images: return; hashes =
\* finder.compute_hashes_for_images(images); if not hashes: return
ScanHashes ==
    /\ cmd = "sim"
    /\ pc = "listed"
    /\ hashes' = ComputeHashesForImages(catalog)
    /\ pc' = IF catalog = <<>> \/ hashes' = <<>> THEN "done" ELSE "hashed"
    /\ UNCHANGED <<cmd, dump, confirm, groups, keep_index, catalog, threshold, found, stats,
                   search, run>>

\* similar_groups = finder.find_similar_images(images, hashes);
\* if not similar_groups: return
ScanSimilar ==
    /\ cmd = "sim"
    /\ pc = "hashed"
    /\ found' = FindSimilarImages(catalog, hashes, threshold)
    /\ pc' = IF found' = <<>> THEN "done" ELSE "found"
    /\ UNCHANGED <<cmd, dump, confirm, groups, keep_index, catalog, threshold, hashes, stats,
                   search, run>>

\* stats = finder.calculate_wasted_space(similar_groups)
ScanSimStats ==
    /\ cmd = "sim"
    /\ pc = "found"
    /\ groups' = SimCalculateWastedSpace(found)
    /\ stats' = SimTotals(found)
    /\ pc' = "gate"
    /\ UNCHANGED <<cmd, dump, confirm, keep_index, catalog, threshold, hashes, found,
                   search, run>>

ScanNext ==
    \/ ScanDuplicates
    \/ ScanDupStats
    \/ ScanHashes
    \/ ScanSimilar
    \/ ScanSimStats
    \/ Gate
    \/ DupBeginGroup
    \/ DupSkipKeeper
    \/ DupStartDownload
    \/ \E out \in DownloadOutcomes : DupDownloadReturn(out)
    \/ DupStartDelete
    \/ \E out \in DeleteOutcomes : DupDeleteReturn(out)
    \/ DupFinishGroup
    \/ SimBeginGroup
    \/ SimSkipKeeper
    \/ SimStartDownload
    \/ \E out \in DownloadOutcomes : SimDownloadReturn(out)
    \/ SimStartDelete
    \/ \E out \in DeleteOutcomes : SimDeleteReturn(out)
    \/ SimFinishGroup
    \/ EndRun

ScanSpec == ScanInit /\ [][ScanNext]_vars

\* ------------------------------------------- the scan alone, longer listings
\* files (or images) in a listing that is scanned and not dumped
MaxListing == 4

Listings(c) ==
    UNION { IF c = "dup" THEN DupCatalogs(n) ELSE ImageCatalogs(n) : n \in 0..MaxListing }

\* A run of drive-duplicates or drive-similar without --dump
StatsInit ==
    /\ cmd \in {"dup", "sim"}
    /\ dump = FALSE
    /\ confirm = ""
    /\ catalog \in Listings(cmd)
    /\ threshold \in IF cmd = "sim" THEN Thresholds ELSE {SimilarityThreshold}
    /\ hashes = <<>>
    /\ found = <<>>
    /\ stats = NoStats
    /\ NoSearch
    /\ groups = <<>>
    /\ keep_index = KeepIndex
    /\ pc = "listed"
    /\ gi = 0
    /\ i = 0
    /\ downloaded = <<>>
    /\ deleted_from_drive = <<>>
    /\ failed = <<>>
    /\ skipped_no_permission = <<>>
    /\ results = <<>>
    /\ totals = [freed |-> 0, deleted |-> 0, skipped |-> 0, failed |-> 0]
    /\ fs = EmptyFs
    /\ receipts = [p \in {} |-> <<>>]
    /\ remote = { catalog[k].id : k \in DOMAIN catalog }
    /\ log = <<>>

StatsNext ==
    \/ ScanDuplicates
    \/ ScanDupStats
    \/ ScanHashes
    \/ ScanSimilar
    \/ ScanSimStats
    \/ Gate

StatsSpec == StatsInit /\ [][StatsNext]_vars

\* ------------------------------- search_emails_with_large_attachments, by step
\* messages matching the query, and the largest --max-emails
MaxMailbox == 4
MaxResults == 2

\* The mailboxes of n messages matching  has:attachment larger:NM : ids by
\* position; large tells whether get_message_details(id) returns the message,
\* that is whether the message could be read and has an attachment of at least
\* min_size_bytes.
Mailboxes(n) == { [k \in 1..n |-> [id |-> k, large |-> lg[k]]] : lg \in [1..n -> BOOLEAN] }

\* maxResults=min(500, max_results)
PageSize(n) == Min(500, n)

ListOutcomes == {"ok", "HttpError"}

\* A run of the search, from its first line on
SearchInit ==
    /\ cmd = "gmail"
    /\ dump \in BOOLEAN
    /\ confirm \in ConfirmInputs
    /\ mailbox \in UNION { Mailboxes(n) : n \in 0..MaxMailbox }
    /\ max_results \in 1..MaxResults
    /\ page_token = None
    /\ messages = <<>>
    /\ emails_with_attachments = <<>>
    /\ catalog = <<>>
    /\ threshold = SimilarityThreshold
    /\ hashes = <<>>
    /\ found = <<>>
    /\ stats = NoStats
    /\ groups = <<>>
    /\ keep_index = KeepIndex
    /\ pc = "search"
    /\ gi = 0
    /\ i = 0
    /\ downloaded = <<>>
    /\ deleted_from_drive = <<>>
    /\ failed = <<>>
    /\ skipped_no_permission = <<>>
    /\ results = <<>>
    /\ totals = [freed |-> 0, deleted |-> 0, skipped |-> 0, failed |-> 0]
    /\ fs = EmptyFs
    /\ receipts = [p \in {} |-> <<>>]
    /\ remote = { mailbox[k].id : k \in DOMAIN mailbox }
    /\ log = <<>>

\* results = messages().list(q=query, maxResults=..., pageToken=page_token)
\* .execute(); messages = results.get('messages', []); if not messages: break.
\* The server answers with the next messages behind page_token, at least one
\* and at most maxResults of them while some are left; a call that raises ends
\* the search with what it has.
SearchListPage(out) ==
    /\ cmd = "gmail"
    /\ pc = "search"
    /\ IF out = "HttpError"
       THEN /\ pc' = "searched"
            /\ UNCHANGED messages
       ELSE \E n \in 0..Min(PageSize(max_results), Len(mailbox) - page_token) :
               /\ n = 0 => page_token = Len(mailbox)
               /\ messages' = SubSeq(mailbox, page_token + 1, page_token + n)
               /\ pc' = IF n = 0 THEN "searched" ELSE "page"
    /\ UNCHANGED <<cmd, dump, confirm, groups, keep_index, catalog, threshold, hashes,
                   found, stats, mailbox, max_results, page_token,
                   emails_with_attachments, run>>

\* results.get('nextPageToken'): present while messages are left
NextPageToken(token, page, all) ==
    IF token + Len(page) < Len(all) THEN token + Len(page) ELSE None

\* for message in pbar: msg_data = self.get_message_details(msg_id);
\* if msg_data and msg_data.get('attachments'): append.  Then page_token =
\* results.get('nextPageToken') and the test that ends the loop.
SearchLoadDetails ==
    /\ cmd = "gmail"
    /\ pc = "page"
    /\ emails_with_attachments' =
           emails_with_attachments \o SelectSeq(messages, LAMBDA m : m.large)
    /\ page_token' = NextPageToken(page_token, messages, mailbox)
    /\ pc' = IF page_token' = None \/ Len(emails_with_attachments') >= max_results
             THEN "searched" ELSE "search"
    /\ UNCHANGED <<cmd, dump, confirm, groups, keep_index, catalog, threshold, hashes,
                   found, stats, mailbox, max_results, messages, run>>

SearchNext ==
    \/ \E out \in ListOutcomes : SearchListPage(out)
    \/ SearchLoadDetails

SearchSpec == SearchInit /\ [][SearchNext]_vars

\* ================================================================ claims
IsDrive == cmd \in {"dup", "sim"}
Confirmed == dump /\ confirm = "YES"

\* Positions in the log of the events (op, id, out)
Events(op, id, out) ==
    { k \in DOMAIN log : log[k].op = op /\ log[k].id = id /\ log[k].out = out }

\* The non-survivors of group g
Disposable(g) ==
    { groups[g].files[k] : k \in { j \in DOMAIN groups[g].files : j - 1 # keep_index } }

Survivor(g) == groups[g].files[keep_index + 1]

\* C1: in dump_and_delete_duplicates and dump_and_delete_similar, a delete
\* call for an object is issued only after the download of that same object
\* returned success: every delete call in the log is preceded by a successful
\* download of the same id, and no object whose download failed is ever the
\* subject of a delete call.
C1_DeleteOnlyAfterDownload ==
    IsDrive =>
        \A k \in DOMAIN log :
            log[k].op = "delete" =>
                /\ \E j \in Events("download", log[k].id, "ok") : j < k
                /\ Events("download", log[k].id, "error") = {}

\* C1 witness: a run in which one object was deleted after its download and
\* another object's download failed.
C1_Witness ==
    /\ IsDrive
    /\ pc = "done"
    /\ \E x \in AllIds : Events("delete", x, "success") # {}
    /\ \E y \in AllIds : Events("download", y, "error") # {}

\* C4: the remote store is mutated (and the dump downloads anything) only
\* when the dump flag is set and the typed confirmation is exactly 'YES':
\* in every other run no call is made, nothing is written locally and the
\* remote store stays as it was.
C4_ConfirmationGate ==
    (log # <<>> \/ remote # AllIds \/ DOMAIN fs # {} \/ results # <<>>) => Confirmed

\* C4 witness: a run with the dump flag set ended after the user typed
\* 'yes' in lower case, with the remote store as it was.
C4_Witness ==
    /\ pc = "done"
    /\ dump
    /\ confirm = "yes"
    /\ remote = AllIds
    /\ log = <<>>

\* C5: the member at keep_index of every group is never downloaded and never
\* deleted: no call names its id and it stays in the remote store, whatever
\* happened to the other members.
C5_SurvivorUntouched ==
    IsDrive =>
        \A g \in DOMAIN groups :
            /\ Survivor(g).id \in remote
            /\ \A k \in DOMAIN log : log[k].id # Survivor(g).id

\* C5 witness: a finished run of two groups in which every non-survivor of
\* one group was deleted and the non-survivor of the other failed to download.
C5_Witness ==
    /\ IsDrive
    /\ pc = "done"
    /\ Len(groups) = 2
    /\ \E g \in DOMAIN groups : \A f \in Disposable(g) : f.id \notin remote
    /\ \E g \in DOMAIN groups :
        \E f \in Disposable(g) : Events("download", f.id, "error") # {}

\* C2: no data loss over a whole dump run: when the run is over, every
\* member recorded as deleted from Drive has a local file, at the path it
\* was downloaded to, that holds that member's bytes.
C2_NoDataLoss ==
    (IsDrive /\ pc = "done") =>
        \A g \in DOMAIN results :
            \A d \in Range(results[g].downloaded) :
                d.id \in Range(results[g].deleted_from_drive) =>
                    /\ d.local_path \in DOMAIN fs
                    /\ fs[d.local_path] = Bytes(d.id)

\* The attachment ids of the email with message id m
AttachmentIds(m) ==
    UNION { { e.attachments[k].id : k \in DOMAIN e.attachments } :
            e \in { em \in Range(groups) : em.id = m } }

\* C3: in dump_and_delete_emails the message is moved to trash only after
\* its attachments were downloaded: no trash call is made for an email one
\* of whose attachment downloads failed.
C3_TrashOnlyAfterDownloads ==
    cmd = "gmail" =>
        \A k \in DOMAIN log :
            log[k].op = "trash" =>
                \A a \in AttachmentIds(log[k].id) : Events("attachment", a, "error") = {}

\* The state of a member in the executor's state machine, read off the last
\* call that names it.  A delete that did not go through leaves the member
\* downloaded and not deleted (DownloadedPermissionDenied).
MemberState(x) ==
    LET ks == { k \in DOMAIN log : log[k].id = x }
    IN IF ks = {} THEN "Pending"
       ELSE LET e == log[CHOOSE k \in ks : \A j \in ks : j <= k]
            IN CASE e.op = "download" /\ e.out = "call" -> "Downloading"
                 [] e.op = "download" /\ e.out = "ok" -> "Downloaded"
                 [] e.op = "download" /\ e.out = "error" -> "DownloadFailed"
                 [] e.op = "delete" /\ e.out = "call" -> "Deleting"
                 [] e.op = "delete" /\ e.out = "success" -> "DownloadedAndDeleted"
                 [] OTHER -> "DownloadedPermissionDenied"

CallCount(x) == Cardinality({ k \in DOMAIN log : log[k].id = x })

Transitions ==
    { <<"Pending", "Downloading">>,
      <<"Downloading", "DownloadFailed">>,
      <<"Downloading", "Downloaded">>,
      <<"Downloaded", "Deleting">>,
      <<"Deleting", "DownloadedAndDeleted">>,
      <<"Deleting", "DownloadedPermissionDenied">> }

TerminalStates == {"DownloadFailed", "DownloadedAndDeleted", "DownloadedPermissionDenied"}

\* C6: every step that makes a call for a member, or receives its answer,
\* moves that member along Pending -> Downloading -> DownloadFailed or
\* Pending -> Downloading -> Downloaded -> Deleting -> (DownloadedAndDeleted |
\* DownloadedPermissionDenied): nothing follows a terminal state, and when a
\* confirmed run ends every non-survivor is in a terminal state.
C6_MemberStateMachine ==
    [][ IsDrive =>
          /\ \A x \in AllIds :
                CallCount(x)' # CallCount(x) =>
                    <<MemberState(x), MemberState(x)'>> \in Transitions
          /\ (pc' = "done" /\ Confirmed) =>
                \A g \in DOMAIN groups : \A f \in Disposable(g) :
                    MemberState(f.id)' \in TerminalStates ]_vars

\* C6 witness: a finished run that left one member in each terminal state.
C6_Witness ==
    /\ IsDrive
    /\ pc = "done"
    /\ \A t \in TerminalStates : \E x \in AllIds : MemberState(x) = t

\* The sizes of the non-survivors of group g that pass Test, summed up
SizeOfThose(g, Test(_)) ==
    SumSeq([k \in DOMAIN groups[g].files |->
              IF k - 1 # keep_index /\ Test(groups[g].files[k].id)
              THEN FileSize(groups[g].files[k]) ELSE 0])

Denied(x) == Events("delete", x, "PermissionDenied") # {}
NotDenied(x) == ~Denied(x)
DownloadedAndDeleted(x) ==
    Events("download", x, "ok") # {} /\ Events("delete", x, "success") # {}

\* C7: a non-survivor whose download succeeded and whose delete returned
\* PermissionDenied is, in the result of its group, listed under
\* skipped_no_permission and under downloaded (its local copy is there when
\* the executor returns), is not in deleted_from_drive, is still in the
\* remote store, and its size is not part of space_freed_bytes.
C7_PermissionDeniedAccounting ==
    IsDrive =>
        \A g \in DOMAIN results : \A f \in Disposable(g) :
            Denied(f.id) =>
                /\ \E sk \in Range(results[g].skipped_no_permission) : sk.id = f.id
                /\ \E d \in Range(results[g].downloaded) :
                      /\ d.id = f.id
                      /\ (g = Len(results) /\ pc = "loop") =>
                            (d.local_path \in DOMAIN fs /\ fs[d.local_path] = Bytes(f.id))
                /\ f.id \notin Range(results[g].deleted_from_drive)
                /\ f.id \in remote
                /\ results[g].space_freed_bytes <= SizeOfThose(g, NotDenied)

\* C7 witness: the executor has just returned from a group one member of
\* which was denied and another deleted.
C7_Witness ==
    /\ IsDrive
    /\ pc = "loop"
    /\ results # <<>>
    /\ \E f \in Disposable(Len(results)) : Denied(f.id)
    /\ \E f \in Disposable(Len(results)) : DownloadedAndDeleted(f.id)

\* C8: a member is listed under skipped_no_permission only when its delete
\* returned PermissionDenied, not when the delete failed for another reason.
C8_SkippedOnlyWhenDenied ==
    IsDrive =>
        \A g \in DOMAIN results :
            \A sk \in Range(results[g].skipped_no_permission) : Denied(sk.id)

\* C9: the space_freed_bytes of a group's result is the sum of the sizes of
\* exactly the members that were downloaded and then deleted from the remote
\* store; every other member contributes 0.
C9_SpaceFreed ==
    IsDrive =>
        \A g \in DOMAIN results :
            results[g].space_freed_bytes = SizeOfThose(g, DownloadedAndDeleted)

\* C9 witness: a result with bytes freed for a group of which another member
\* was downloaded but not deleted and a third failed to download.
C9_Witness ==
    /\ IsDrive
    /\ pc = "done"
    /\ \E g \in DOMAIN results :
        /\ results[g].space_freed_bytes > 0
        /\ \E f \in Disposable(g) : MemberState(f.id) = "DownloadedPermissionDenied"
        /\ \E f \in Disposable(g) : MemberState(f.id) = "DownloadFailed"

\* C10: a failed download or delete of one member aborts neither its group
\* nor the run: when a confirmed run ends, a download was attempted for
\* every non-survivor of every group and every group has its result.
C10_FailureIsolation ==
    (IsDrive /\ Confirmed /\ pc = "done") =>
        /\ Len(results) = Len(groups)
        /\ \A g \in DOMAIN groups : \A f \in Disposable(g) :
              Events("download", f.id, "call") # {}

\* C10 witness: a finished run of two groups in which the non-survivor of
\* the first group failed to download and the one of the second group was
\* deleted all the same.
C10_Witness ==
    /\ IsDrive
    /\ pc = "done"
    /\ Len(groups) = 2
    /\ MemberState(groups[1].files[2].id) = "DownloadFailed"
    /\ MemberState(groups[2].files[2].id) = "DownloadedAndDeleted"
    /\ Len(results) = 2

\* The outcome categories of a destructive run
OutcomeCategories == {"downloaded", "deleted", "skipped", "failed"}

\* C11: a confirmed destructive run over a finite list of groups completes
\* whatever the outcomes of its downloads and deletes, and what it reports at
\* completion carries the count of every outcome category: downloaded,
\* deleted, skipped for lack of permission, failed.
C11_CompletesAndReports ==
    (IsDrive /\ Confirmed /\ pc = "done") => OutcomeCategories \subseteq DOMAIN Report


\* ------------------------------------------------------ claims on the scan
\* The ids of a list of files, in order
Ids(files) == [k \in DOMAIN files |-> files[k].id]

\* The groups of found, as lists of ids
FoundIds == [k \in DOMAIN found |-> Ids(found[k].value)]

\* x and y are in one group of found
SameGroup(x, y) == \E k \in DOMAIN found : {x, y} \subseteq Range(FoundIds[k])

\* x is in a group of found
Grouped(x) == \E k \in DOMAIN found : x \in Range(FoundIds[k])

\* find_duplicates / find_similar_images has returned
Searched == pc \notin {"listed", "hashed"}

\* C12: a similarity threshold outside (0,1] is a fatal configuration error:
\* a find-similar run started with such a threshold aborts before any remote
\* mutation, so that no delete is issued and the remote store stays as it was.
C12_ThresholdOutOfRange ==
    (cmd = "sim" /\ threshold \notin 1..MaxDifference) =>
        /\ \A k \in DOMAIN log : log[k].op # "delete"
        /\ remote = { catalog[k].id : k \in DOMAIN catalog }

\* C13: two different objects of the listing are in one group returned by
\* find_duplicates exactly when both have an md5Checksum and the two are
\* equal; an object without md5Checksum is in no group.
C13_ExactGrouping ==
    (cmd = "dup" /\ Searched) =>
        /\ \A x, y \in DOMAIN catalog :
              x # y => (SameGroup(x, y) <=>
                           /\ catalog[x].md5 # NoMd5
                           /\ catalog[y].md5 # NoMd5
                           /\ catalog[x].md5 = catalog[y].md5)
        /\ \A x \in DOMAIN catalog : catalog[x].md5 = NoMd5 => ~Grouped(x)

\* C13 witness: find_duplicates returned a group for a listing that also
\* holds a file without md5Checksum.
C13_Witness ==
    /\ cmd = "dup"
    /\ pc = "found"
    /\ \E x, y \in DOMAIN catalog : x # y /\ SameGroup(x, y)
    /\ \E z \in DOMAIN catalog : catalog[z].md5 = NoMd5

\* C14: every group returned by find_duplicates and by find_similar_images
\* has at least 2 members: a hash seen once, or an anchor nothing matched,
\* gives no group.
C14_NoSingletonGroup ==
    \A k \in DOMAIN found : Len(found[k].value) >= 2

\* C14 witness: find_duplicates returned a group for a listing one file of
\* which has an md5Checksum no other file has.
C14_Witness ==
    /\ cmd = "dup"
    /\ pc = "found"
    /\ found # <<>>
    /\ \E x \in DOMAIN catalog :
          /\ catalog[x].md5 # NoMd5
          /\ \A y \in DOMAIN catalog : y # x => catalog[y].md5 # catalog[x].md5

\* a and j are within the threshold: 1 - d(a,j)/64 >= threshold
Within(a, j) ==
    MaxDifference - Difference(catalog[a].bits, catalog[j].bits) >= threshold

\* Image k has a fingerprint and no earlier anchor took it: it is unassigned
\* when the pass reaches it, and so an anchor
RECURSIVE Unassigned(_)
Unassigned(k) ==
    /\ catalog[k].decodes
    /\ \A a \in 1..(k - 1) : ~(Unassigned(a) /\ Within(a, k))

\* Anchor a takes j: a precedes j, a was unassigned when reached, j was
\* unassigned when a scanned it, and the two are within the threshold
Claimed(a, j) ==
    /\ a < j
    /\ Unassigned(a)
    /\ catalog[j].decodes
    /\ \A b \in 1..(a - 1) : ~(Unassigned(b) /\ Within(b, j))
    /\ Within(a, j)

\* j is a member, not the first, of the group of found whose first member is a
MemberOf(a, j) ==
    \E k \in DOMAIN found :
        /\ FoundIds[k][1] = a
        /\ \E p \in 2..Len(FoundIds[k]) : FoundIds[k][p] = j

\* C15: the greedy single pass: j is a non-anchor member of the group
\* anchored by a exactly when a precedes j in the listing, a was unassigned
\* when reached, j was unassigned when a scanned it and similarity(a, j) >=
\* threshold; so every non-anchor member is within the threshold of the
\* first member of its group.
C15_GreedyClustering ==
    (cmd = "sim" /\ Searched) =>
        /\ \A a, j \in DOMAIN catalog : MemberOf(a, j) <=> Claimed(a, j)
        /\ \A k \in DOMAIN found : \A p \in 2..Len(FoundIds[k]) :
              Within(FoundIds[k][1], FoundIds[k][p])

\* C15 witness: a group two members of which are not within the threshold of
\* each other.
C15_Witness ==
    /\ cmd = "sim"
    /\ pc = "found"
    /\ threshold \in 1..MaxDifference
    /\ \E k \in DOMAIN found : \E x, y \in Range(FoundIds[k]) : ~Within(x, y)

\* The images of the listing that have a fingerprint, in listing order
Decodable == SelectSeq(catalog, LAMBDA f : f.decodes)

\* C16: three fingerprints A, B, C listed in that order, A-B and B-C within
\* the threshold and A-C outside it: find_similar_images returns the one
\* group {A, B}, and C is in no group.
C16_Asymmetry ==
    LET D == Ids(Decodable)
    IN (/\ cmd = "sim"
        /\ Searched
        /\ Len(D) = 3
        /\ Within(D[1], D[2])
        /\ Within(D[2], D[3])
        /\ ~Within(D[1], D[3])) =>
            /\ FoundIds = << <<D[1], D[2]>> >>
            /\ ~Grouped(D[3])

\* C16 witness: find_similar_images has returned for three such fingerprints.
C16_Witness ==
    LET D == Ids(Decodable)
    IN /\ cmd = "sim"
       /\ pc = "found"
       /\ Len(D) = 3
       /\ Within(D[1], D[2])
       /\ Within(D[2], D[3])
       /\ ~Within(D[1], D[3])

\* C17: an image whose fingerprint could not be computed is in no group,
\* neither as anchor nor as member, and the others are hashed and clustered
\* as if it were not in the listing.
C17_FailedFingerprintExcluded ==
    cmd = "sim" =>
        /\ \A x \in DOMAIN catalog : ~catalog[x].decodes => ~Grouped(x)
        /\ pc # "listed" =>
              DictKeys(hashes) = { catalog[x].id : x \in { k \in DOMAIN catalog : catalog[k].decodes } }
        /\ Searched =>
              found = FindSimilarImages(Decodable, ComputeHashesForImages(Decodable), threshold)

\* C17 witness: a group was found around an image that could not be hashed,
\* listed between the group's members.
C17_Witness ==
    /\ cmd = "sim"
    /\ pc = "found"
    /\ \E x, y, z \in DOMAIN catalog :
          x < y /\ y < z /\ ~catalog[y].decodes /\ SameGroup(x, z)

\* C18: the survivor of an exact group, the member the find-duplicates
\* pipeline keeps in the remote store, is the first object of the listing
\* among those with the group's md5: it is at keep_index, is never named in
\* a call and stays in the remote store.
C18_FirstListedSurvives ==
    cmd = "dup" =>
        \A g \in DOMAIN groups :
            LET first == CHOOSE x \in DOMAIN catalog :
                            /\ catalog[x].md5 = groups[g].md5
                            /\ \A y \in 1..(x - 1) : catalog[y].md5 # groups[g].md5
            IN /\ Survivor(g).id = catalog[first].id
               /\ catalog[first].id \in remote
               /\ \A k \in DOMAIN log : log[k].id # catalog[first].id

\* C18 witness: a confirmed run ended with, of a group of three, only the
\* first listed left in the remote store.
C18_Witness ==
    /\ cmd = "dup"
    /\ pc = "done"
    /\ \E g \in DOMAIN groups :
          /\ Len(groups[g].files) = 3
          /\ \A f \in Disposable(g) : f.id \notin remote

\* The largest size in group g
LargestSize(g) ==
    CHOOSE s \in { FileSize(f) : f \in Range(groups[g].files) } :
        \A f \in Range(groups[g].files) : FileSize(f) <= s

\* C19: the survivor of a similar group (the keeper, index 0 of the sorted
\* files the dump works on) is the member of largest size, and among the
\* members of largest size the one listed first.
C19_LargestSurvives ==
    cmd = "sim" =>
        \A g \in DOMAIN groups :
            /\ Survivor(g) = groups[g].keeper
            /\ FileSize(Survivor(g)) = LargestSize(g)
            /\ \A f \in Range(groups[g].files) :
                  FileSize(f) = LargestSize(g) => Survivor(g).id <= f.id
            /\ Survivor(g).id \in remote

\* C19 witness: a confirmed run ended for a group whose first listed member
\* is smaller than two members of equal, largest size.
C19_Witness ==
    /\ cmd = "sim"
    /\ pc = "done"
    /\ results # <<>>
    /\ \E g \in DOMAIN groups :
          /\ \E f \in Range(groups[g].files) : f.id < Survivor(g).id
          /\ \E f \in Disposable(g) : FileSize(f) = LargestSize(g)

\* C20: in the find-duplicates dump the copy kept in Drive is the oldest of
\* its group: no member has an earlier createdTime than the survivor,
\* whatever the order of the listing.
C20_OldestCopyKept ==
    (cmd = "dup" /\ Confirmed /\ pc = "done") =>
        \A g \in DOMAIN groups :
            \A f \in Range(groups[g].files) :
                Survivor(g).createdTime <= f.createdTime


\* ------------------------------------------------------------ wasted space
RECURSIVE SetSum(_, _)
SetSum(S, f) ==
    IF S = {} THEN 0
    ELSE LET x == CHOOSE y \in S : TRUE IN f[x] + SetSum(S \ {x}, f)

\* The positions in the listing of the files carrying md5 m
Copies(m) == { k \in DOMAIN catalog : catalog[k].md5 = m }
\* (N - 1) * S for the N >= 2 listed copies, of size S each, of md5 m
ExcessBytes(m) ==
    IF Cardinality(Copies(m)) < 2 THEN 0
    ELSE (Cardinality(Copies(m)) - 1) * catalog[CHOOSE k \in Copies(m) : TRUE].size

Computed == stats # NoStats

\* C21: an exact group of N members of size S > 0 each is reported with
\* wasted_bytes = (N - 1) * S, and total_wasted_bytes is the sum of these
\* values over all the groups of the listing.
C21_ExactWastedBytes ==
    (cmd = "dup" /\ Computed) =>
        /\ \A g \in DOMAIN groups :
              \A S \in Sizes :
                  (\A f \in Range(groups[g].files) : f.size = S) =>
                      groups[g].wasted_bytes = (Len(groups[g].files) - 1) * S
        /\ stats.total_wasted_bytes = SetSum(Md5s, [m \in Md5s |-> ExcessBytes(m)])
        /\ stats.total_wasted_bytes =
               SumSeq([g \in DOMAIN groups |-> groups[g].wasted_bytes])

\* Two groups of different sizes were found and their wasted bytes added up
C21_Witness ==
    /\ cmd = "dup"
    /\ Computed
    /\ Len(groups) = 2
    /\ groups[1].wasted_bytes = 2
    /\ groups[2].wasted_bytes = 1
    /\ stats.total_wasted_bytes = 3

\* The bytes the listing holds under the ids of a group's members
ListedBytes(files) ==
    LET ids == { f.id : f \in Range(files) }
    IN SetSum(ids, [x \in ids |-> FileLookup(catalog, x).size])

\* C22: the wasted bytes of a group of similar images are the sizes of all
\* its members added up, less the size of the survivor, and the total wasted
\* space is the sum of these over all groups.
C22_SimilarWastedBytes ==
    (cmd = "sim" /\ Computed) =>
        /\ \A g \in DOMAIN groups :
              groups[g].wasted_bytes =
                  ListedBytes(groups[g].files) - Survivor(g).size
        /\ stats.total_wasted_bytes =
               SumSeq([g \in DOMAIN groups |->
                          ListedBytes(groups[g].files) - Survivor(g).size])

\* Two groups: sizes 2 and 2 waste 2, sizes 2 and 1 waste 1
C22_Witness ==
    /\ cmd = "sim"
    /\ Computed
    /\ Len(groups) = 2
    /\ groups[1].wasted_bytes = 2
    /\ groups[2].wasted_bytes = 1
    /\ Survivor(2).size = 2
    /\ stats.total_wasted_bytes = 3

\* The groups find_duplicates() returned whose first file has size 0
ZeroSizeGroups == { k \in DOMAIN found : FileSize(found[k].value[1]) = 0 }

\* C23: an exact group of size 0 (or unknown) adds nothing to
\* total_wasted_bytes, its members are still counted in total_duplicate_files
\* and the group is still counted in total_duplicate_groups.
C23_ZeroSizeGroupsCounted ==
    (cmd = "dup" /\ Computed) =>
        /\ stats.total_wasted_bytes =
               SumSeq([k \in DOMAIN found |->
                          IF k \in ZeroSizeGroups THEN 0 ELSE DupWasted(found[k].value)])
        /\ stats.total_duplicate_files =
               SumSeq([k \in DOMAIN found |-> Len(found[k].value)])
        /\ stats.total_duplicate_groups = Len(found)

\* The place in find_*()'s result of the group that stands at position g of
\* the Stats group list
OriginalIndex(g) ==
    CHOOSE k \in DOMAIN found :
        { f.id : f \in Range(found[k].value) } = { f.id : f \in Range(groups[g].files) }

\* C24: the group list of the Stats (exact and similar) is in descending
\* order of wasted bytes, and groups of equal wasted bytes keep the order
\* they had before the sort.
C24_StatsOrder ==
    (IsDrive /\ Computed) =>
        /\ IsSortedDesc([g \in DOMAIN groups |-> groups[g].wasted_bytes])
        /\ \A g, h \in DOMAIN groups :
              (g < h /\ groups[g].wasted_bytes = groups[h].wasted_bytes) =>
                  OriginalIndex(g) < OriginalIndex(h)

\* Two groups wasting the same number of bytes stand in the order the search
\* gave them
C24_Witness ==
    /\ IsDrive
    /\ Computed
    /\ Len(groups) = 2
    /\ groups[1].wasted_bytes = groups[2].wasted_bytes
    /\ OriginalIndex(1) = 1
    /\ OriginalIndex(2) = 2

\* ------------------------------------------------------------- the receipt
\* The executor leaves its member loop and returns
GroupDone == IsDrive /\ pc = "member" /\ pc' = "loop"

DumpFolder(group) ==
    IF cmd = "dup" THEN DupDumpFolder(group) ELSE SimDumpFolder(group, keep_index)

\* The tag the receipt owes to a member, by what the remote store answered
OwedTag(g, k) ==
    LET st == MemberState(groups[g].files[k].id)
    IN IF k - 1 = keep_index THEN "KEPT IN DRIVE"
       ELSE IF st = "DownloadedAndDeleted" THEN "DOWNLOADED & DELETED FROM DRIVE"
       ELSE IF st = "DownloadedPermissionDenied" THEN "SKIPPED (No permission)"
       ELSE IF st = "DownloadFailed" THEN "FAILED"
       ELSE "none"

\* C25: the receipt of a group is written once per processed group, when the
\* executor returns and every non-survivor has reached a terminal outcome; it
\* holds one line per original member, in order, tagged KEPT for the survivor,
\* DOWNLOADED & DELETED iff the member was deleted from the remote store,
\* SKIPPED iff it was downloaded and not deleted, FAILED iff its download failed.
C25_GroupReceipt ==
    [][ /\ (IsDrive /\ receipts' # receipts) => GroupDone
        /\ GroupDone =>
              LET files == groups[gi].files
                  folder == DumpFolder(groups[gi])
              IN /\ folder \in DOMAIN receipts'
                 /\ Len(receipts'[folder]) = Len(files)
                 /\ \A k \in DOMAIN files :
                       /\ receipts'[folder][k].id = files[k].id
                       /\ receipts'[folder][k].status = OwedTag(gi, k)
                       /\ k - 1 # keep_index =>
                             /\ MemberState(files[k].id) \in TerminalStates
                             /\ (MemberState(files[k].id) = "DownloadedAndDeleted")
                                    <=> files[k].id \notin remote
    ]_vars

\* A receipt carrying all four tags has been written
C25_Witness ==
    /\ IsDrive
    /\ pc = "loop"
    /\ \E p \in DOMAIN receipts :
          { receipts[p][k].status : k \in DOMAIN receipts[p] } =
              { "KEPT IN DRIVE", "DOWNLOADED & DELETED FROM DRIVE",
                "SKIPPED (No permission)", "FAILED" }

\* ------------------------------------------------------------- the search
\* C26: search_emails_with_large_attachments(max_results) returns at most
\* max_results emails, whatever pages the mailbox delivers.
C26_AtMostMaxResults ==
    (cmd = "gmail" /\ pc = "searched") => Len(emails_with_attachments) <= max_results

\* ---------------------------------------------------------- the accounting
\* The lists of a result a member's id stands in
ListedIn(r, x) ==
    (IF x \in Range(r.deleted_from_drive) THEN {"deleted_from_drive"} ELSE {})
    \cup (IF \E s \in Range(r.skipped_no_permission) : s.id = x
          THEN {"skipped_no_permission"} ELSE {})
    \cup (IF \E f \in Range(r.failed) : f.id = x THEN {"failed"} ELSE {})

\* C27: in the result of a group of n members handled with keep_index 0, every
\* non-survivor stands in exactly one of deleted_from_drive,
\* skipped_no_permission and failed; len(downloaded) + len(failed) = n - 1 and
\* len(deleted_from_drive) + len(skipped_no_permission) = len(downloaded).
C27_AccountingPartition ==
    IsDrive =>
        \A g \in DOMAIN results :
            /\ \A f \in Disposable(g) : Cardinality(ListedIn(results[g], f.id)) = 1
            /\ ListedIn(results[g], Survivor(g).id) = {}
            /\ Len(results[g].downloaded) + Len(results[g].failed)
                   = Len(groups[g].files) - 1
            /\ Len(results[g].deleted_from_drive) + Len(results[g].skipped_no_permission)
                   = Len(results[g].downloaded)

\* A group of four has returned with one member in each of the three lists
C27_Witness ==
    /\ IsDrive
    /\ \E g \in DOMAIN results :
          /\ Len(groups[g].files) = 4
          /\ Len(results[g].deleted_from_drive) = 1
          /\ Len(results[g].skipped_no_permission) = 1
          /\ Len(results[g].failed) = 1
          /\ Len(results[g].downloaded) = 2

\* ---------------------------------------------------------- disjoint groups
\* C28: on a listing of pairwise distinct ids, the groups find_duplicates and
\* find_similar_images return share no member and no group lists an id twice,
\* so the survivor of one group is never a disposal candidate of another.
C28_GroupsDisjoint ==
    IsDrive =>
        /\ \A k, l \in DOMAIN found :
              k # l => Range(Ids(found[k].value)) \cap Range(Ids(found[l].value)) = {}
        /\ \A k \in DOMAIN found :
              Cardinality(Range(Ids(found[k].value))) = Len(found[k].value)
        /\ Computed =>
              \A g, h \in DOMAIN groups :
                  g # h => Survivor(g).id \notin { f.id : f \in Disposable(h) }

\* Two groups of similar images were found in one listing
C28_Witness ==
    /\ cmd = "sim"
    /\ Computed
    /\ Len(found) = 2
    /\ Len(groups) = 2

\* -------------------------------------------------------- zero-size groups
\* C29: an exact group whose first member has size 0 (or no size) is not in
\* the duplicate_groups of the Stats, and the dump loop of find-duplicates
\* makes no download and no delete call for any of its members: they all stay
\* in the remote store.
C29_ZeroSizeGroupUntouched ==
    cmd = "dup" =>
        \A k \in ZeroSizeGroups :
            /\ \A g \in DOMAIN groups : groups[g].md5 # found[k].key
            /\ \A f \in Range(found[k].value) :
                  /\ f.id \in remote
                  /\ \A e \in DOMAIN log : log[e].id # f.id

\* A confirmed dump has run to its end on a listing of three empty files with
\* the same md5
C29_Witness ==
    /\ cmd = "dup"
    /\ Confirmed
    /\ pc = "done"
    /\ Computed
    /\ ZeroSizeGroups # {}
    /\ \E k \in ZeroSizeGroups : Len(found[k].value) = 3

\* ------------------------------------------------- attachments of one email
\* The attachments of the emails in hand whose download returned success
Fetched(email) ==
    { a \in Range(email.attachments) : Events("attachment", a.id, "ok") # {} }

\* C30: when an email is moved to trash, every attachment of it whose download
\* returned success has its own local file, holding its bytes: two attachments
\* of one email are never written to the same local path.
C30_AttachmentFilesKept ==
    cmd = "gmail" =>
        \A m \in DOMAIN groups :
            Events("trash", groups[m].id, "success") # {} =>
                /\ \A a \in Fetched(groups[m]) :
                      LET local_path == AttachmentPath(EmailFolder(groups[m]), a.filename)
                      IN local_path \in DOMAIN fs /\ fs[local_path] = Bytes(a.id)
                /\ \A a, b \in Fetched(groups[m]) :
                      a.id # b.id =>
                          AttachmentPath(EmailFolder(groups[m]), a.filename)
                              # AttachmentPath(EmailFolder(groups[m]), b.filename)
====
